---- MODULE Spec2Model ----
(***************************************************************************)
(* Audit trail for Sequelize models (nest-sequelize-auditor).              *)
(*                                                                         *)
(* The module models                                                       *)
(*   - the value pipeline of utils/writeAudit.ts (getChangedFields,        *)
(*     pickFields, applyExcludeAndMask, processValues, writeAudit),        *)
(*   - the hook binder of hooks/attachAuditHooks.ts with its one-time      *)
(*     storage initialisation,                                             *)
(*   - the AsyncLocalStorage-backed RequestContext of request-context.ts.  *)
(*                                                                         *)
(* A snapshot (Record<string, any>) is a function from a subset of Fields  *)
(* to Values; its keys are enumerated in the order of FieldOrder.  An      *)
(* optional value is Undefined or Def(v).                                  *)
(***************************************************************************)
EXTENDS Naturals, Sequences, FiniteSets, TLC

VARIABLES
  globalAuditModel,      \* the storage handle of writeAudit.ts: "null" or "AuditModel"
  audits,                \* the rows of the audit table, in insertion order
  auditModelInitialized, \* the initialisation flag of attachAuditHooks.ts
  globalAuditOptions,    \* the options setGlobalAuditOptions stored
  hooks,                 \* the attachAuditHooks calls made: <<[model, config], ...>>
  inits,                 \* the ensureAuditModelInitialized calls awaiting their
                         \* imports and awaiting sync
  syncCalls,             \* how many times the audit table was synced
  errorLog,              \* which code has written to console.error
  store,                 \* the AsyncLocalStorage store of the top-level execution
  task,                  \* the application tasks
  call,                  \* the invocation under way in a single-call specification
  ret                    \* its state and result

\* the state of the hook binder and of the tasks
binderVars == <<auditModelInitialized, globalAuditOptions, hooks, inits,
                syncCalls, errorLog, store, task>>

vars == <<globalAuditModel, audits, binderVars, call, ret>>

(***************************************************************************)
(* Data domains and bounds                                                 *)
(***************************************************************************)
Fields == {"name", "phone", "password"}

FieldOrder == <<"name", "phone", "password">>

Values == {"A", "B"}

\* longest exclude / mask list given to the redactor on its own
MaxListLen == 2

\* longest exclude / mask list of a model configuration given to writeAudit
MaxConfigListLen == 1

\* the fields of the snapshots given to writeAudit
WriteFields == {"name", "password"}

\* the value a masked field is replaced with
MASKED == "***MASKED***"

\* what reading a missing property yields
undefined == "undefined"

Undefined == [def |-> FALSE]

Def(v) == [def |-> TRUE, val |-> v]

Objects == UNION {[D -> Values] : D \in SUBSET Fields}

EmptyObject == [k \in {} |-> "A"]

OptObjects == {Undefined} \cup {Def(o) : o \in Objects}

FieldLists == UNION {[1..n -> Fields] : n \in 0..MaxListLen}

OptFieldLists == {Undefined} \cup {Def(l) : l \in FieldLists}

WriteObjects == UNION {[D -> Values] : D \in SUBSET WriteFields}

OptWriteObjects == {Undefined} \cup {Def(o) : o \in WriteObjects}

ConfigLists == UNION {[1..n -> WriteFields] : n \in 0..MaxConfigListLen}

OptConfigLists == {Undefined} \cup {Def(l) : l \in ConfigLists}

Flags == {"unset", "true", "false"}

Events == {"created", "updated", "deleted", "restored"}

Range(s) == {s[i] : i \in 1..Len(s)}

\* obj[field] of JavaScript: undefined when the key is missing
Get(obj, field) == IF field \in DOMAIN obj THEN obj[field] ELSE undefined

\* `field in obj`
In(field, obj) == field \in DOMAIN obj

\* the keys of obj in enumeration order (for ... in)
RECURSIVE KeysFrom(_, _)
KeysFrom(order, obj) ==
  IF order = <<>> THEN <<>>
  ELSE IF In(Head(order), obj)
       THEN <<Head(order)>> \o KeysFrom(Tail(order), obj)
       ELSE KeysFrom(Tail(order), obj)

Keys(obj) == KeysFrom(FieldOrder, obj)

\* result[field] = value
Put(obj, field, value) ==
  [k \in DOMAIN obj \cup {field} |-> IF k = field THEN value ELSE obj[k]]

\* delete result[field]
Delete(obj, field) == [k \in DOMAIN obj \ {field} |-> obj[k]]

(***************************************************************************)
(* getChangedFields                                                        *)
(***************************************************************************)
\* first loop: every field of newValues whose value differs from oldValues
RECURSIVE scanNewValues(_, _, _, _)
scanNewValues(keys, oldValues, newValues, changedFields) ==
  IF keys = <<>> THEN changedFields
  ELSE LET field == Head(keys)
           next  == IF Get(oldValues, field) # Get(newValues, field)
                    THEN Append(changedFields, field)
                    ELSE changedFields
       IN scanNewValues(Tail(keys), oldValues, newValues, next)

\* second loop, without the test that the field is missing from newValues
RECURSIVE scanOldValues_noRemovedTest(_, _, _, _)
scanOldValues_noRemovedTest(keys, oldValues, newValues, changedFields) ==
  IF keys = <<>> THEN changedFields
  ELSE LET field == Head(keys)
           next  == IF field \notin Range(changedFields)
                    THEN Append(changedFields, field)
                    ELSE changedFields
       IN scanOldValues_noRemovedTest(Tail(keys), oldValues, newValues, next)

\* second loop: every field of oldValues that newValues no longer has
RECURSIVE scanOldValues(_, _, _, _)
scanOldValues(keys, oldValues, newValues, changedFields) ==
  IF keys = <<>> THEN changedFields
  ELSE LET field == Head(keys)
           next  == IF ~In(field, newValues) /\ field \notin Range(changedFields)
                    THEN Append(changedFields, field)
                    ELSE changedFields
       IN scanOldValues(Tail(keys), oldValues, newValues, next)

getChangedFields(oldValues, newValues) ==
  scanOldValues(Keys(oldValues), oldValues, newValues,
                scanNewValues(Keys(newValues), oldValues, newValues, <<>>))

(***************************************************************************)
(* pickFields                                                              *)
(***************************************************************************)
RECURSIVE pickInto(_, _, _)
pickInto(fields, values, result) ==
  IF fields = <<>> THEN result
  ELSE LET field == Head(fields)
           next  == IF In(field, values)
                    THEN Put(result, field, values[field])
                    ELSE result
       IN pickInto(Tail(fields), values, next)

\* picking that ignores the list and keeps every field
pickFields_keepsAll(values, fields) == values

pickFields(values, fields) == pickInto(fields, values, EmptyObject)

(***************************************************************************)
(* applyExcludeAndMask                                                     *)
(***************************************************************************)
\* the exclusion loop left out
removeExcluded_skipped(result, exclude) == result

RECURSIVE removeExcluded(_, _)
removeExcluded(result, exclude) ==
  IF exclude = <<>> THEN result
  ELSE removeExcluded(Delete(result, Head(exclude)), Tail(exclude))

\* masking that does not test whether the field is still there
maskField_unguarded(result, field) == Put(result, field, MASKED)

maskField(result, field) ==
  IF In(field, result) THEN Put(result, field, MASKED) ELSE result

RECURSIVE maskFields(_, _)
maskFields(result, mask) ==
  IF mask = <<>> THEN result
  ELSE maskFields(maskField(result, Head(mask)), Tail(mask))

applyExcludeAndMask(values, config) ==
  IF ~values.def THEN values
  ELSE LET copy     == values.val
           excluded == IF config.exclude.def
                       THEN removeExcluded(copy, config.exclude.val)
                       ELSE copy
           masked   == IF config.mask.def
                       THEN maskFields(excluded, config.mask.val)
                       ELSE excluded
       IN Def(masked)

(***************************************************************************)
(* processValues                                                           *)
(***************************************************************************)
\* a ?? b on flags: the left operand unless it is unset
Coalesce(a, b) == IF a # "unset" THEN a ELSE b

\* globalConfig?.onlyDirty
globalOnlyDirty(globalConfig) ==
  IF globalConfig.def THEN globalConfig.val.onlyDirty ELSE "unset"

\* the precedence inverted: the global option wins over the model's
effectiveOnlyDirty_globalFirst(config, globalConfig) ==
  Coalesce(Coalesce(globalOnlyDirty(globalConfig), config.onlyDirty), "false") = "true"

\* config.onlyDirty ?? globalConfig?.onlyDirty ?? false
effectiveOnlyDirty(config, globalConfig) ==
  Coalesce(Coalesce(config.onlyDirty, globalOnlyDirty(globalConfig)), "false") = "true"

\* the dirty branch leaving both snapshots as they came
dirtyPair_noFilter(oldValues, newValues) ==
  [old |-> Def(oldValues), new |-> Def(newValues)]

\* the dirty branch dropping the snapshots when nothing changed
dirtyPair_dropsUnchanged(oldValues, newValues) ==
  LET changedFields == getChangedFields(oldValues, newValues)
  IN IF Len(changedFields) > 0
     THEN [old |-> Def(pickFields(oldValues, changedFields)),
           new |-> Def(pickFields(newValues, changedFields))]
     ELSE [old |-> Undefined, new |-> Undefined]

\* the branch taken when onlyDirty holds and both snapshots are given
dirtyPair(oldValues, newValues) ==
  LET changedFields == getChangedFields(oldValues, newValues)
  IN IF Len(changedFields) > 0
     THEN [old |-> Def(pickFields(oldValues, changedFields)),
           new |-> Def(pickFields(newValues, changedFields))]
     ELSE [old |-> Def(EmptyObject), new |-> Def(EmptyObject)]

processValues(oldValues, newValues, config, globalConfig) ==
  LET onlyDirty == effectiveOnlyDirty(config, globalConfig)
      filter    == onlyDirty /\ oldValues.def /\ newValues.def
      finalOld  == IF filter THEN dirtyPair(oldValues.val, newValues.val).old
                   ELSE oldValues
      finalNew  == IF filter THEN dirtyPair(oldValues.val, newValues.val).new
                   ELSE newValues
  IN [processedOldValues |-> applyExcludeAndMask(finalOld, config),
      processedNewValues |-> applyExcludeAndMask(finalNew, config)]

(***************************************************************************)
(* writeAudit                                                              *)
(***************************************************************************)
\* context?.field
ctxField(context, field) ==
  IF context.def THEN Get(context.val, field) ELSE undefined

\* the argument of globalAuditModel.create
buildEntry(options, processed) ==
  [event     |-> options.event,
   table     |-> options.table,
   recordId  |-> options.recordId,
   oldValues |-> processed.processedOldValues,
   newValues |-> processed.processedNewValues,
   actorId   |-> ctxField(options.context, "actorId"),
   ip        |-> ctxField(options.context, "ip"),
   userAgent |-> ctxField(options.context, "userAgent"),
   url       |-> ctxField(options.context, "url"),
   tags      |-> ctxField(options.context, "tags")]

\* an applyExcludeAndMask that deletes and masks on the object it is given
valuesAfter_inPlace(values, config) == applyExcludeAndMask(values, config)

\* the object given to applyExcludeAndMask once the call has returned: the
\* deletes and the masking are done on the copy { ...values }
valuesAfter(values, config) == values

\* the two snapshots given to processValues once it has returned:
\* getChangedFields and pickFields only read them, and applyExcludeAndMask
\* is given the snapshot itself unless dirty filtering has put a new object
\* in its place
snapshotsAfter(oldValues, newValues, config, globalConfig) ==
  LET onlyDirty == effectiveOnlyDirty(config, globalConfig)
      filter    == onlyDirty /\ oldValues.def /\ newValues.def
  IN [oldValues |-> IF filter THEN oldValues ELSE valuesAfter(oldValues, config),
      newValues |-> IF filter THEN newValues ELSE valuesAfter(newValues, config)]

\* the options object of a writeAudit call once the call has reached its
\* return or its await
optionsAfter(handle, options) ==
  IF handle = "null" THEN options
  ELSE LET after == snapshotsAfter(options.oldValues, options.newValues,
                                   options.config, options.globalConfig)
       IN [options EXCEPT !.oldValues = after.oldValues,
                          !.newValues = after.newValues]

\* writeAudit without the test of the handle
writeAuditBegin_noHandleTest(handle, options) ==
  [pending |-> TRUE,
   entry   |-> buildEntry(options,
                 processValues(options.oldValues, options.newValues,
                               options.config, options.globalConfig))]

\* writeAudit up to its await: returns at once without a handle, otherwise
\* issues create with the processed entry
writeAuditBegin(handle, options) ==
  IF handle = "null"
  THEN [pending |-> FALSE, result |-> "resolved"]
  ELSE [pending |-> TRUE,
        entry   |-> buildEntry(options,
                      processValues(options.oldValues, options.newValues,
                                    options.config, options.globalConfig))]

\* the attributes of the audit model that writeAudit can supply (id and
\* createdAt are filled in by the storage)
AuditColumns ==
  {"event", "table", "recordId", "oldValues", "newValues", "userId", "ip",
   "userAgent", "url", "tags"}

\* the row AuditModel.create stores for `entry`: the values given for the
\* attributes of the model; a key that is no attribute is dropped
insertRow(entry) ==
  [c \in AuditColumns |-> IF c \in DOMAIN entry THEN entry[c] ELSE undefined]

\* a storage call that puts the new row before the rows of the table
create_prepends(rows, entry) == <<insertRow(entry)>> \o rows

\* a storage call that overwrites the table with the new row
create_overwrites(rows, entry) == <<insertRow(entry)>>

\* globalAuditModel.create when it succeeds: one INSERT, the new row comes
\* after the rows of the table
create(rows, entry) == Append(rows, insertRow(entry))

\* a create failure that is not caught
onCreateError_rethrow == "rejected"

\* the catch block of writeAudit: log, do not throw
onCreateError == "resolved"

(***************************************************************************)
(* RequestContext over AsyncLocalStorage                                   *)
(*                                                                         *)
(* Every execution has a store.  run(context, callback) makes context the  *)
(* store of the callback and puts the caller's store back afterwards; a    *)
(* continuation created at an await resumes with the store that was        *)
(* current when it was created.                                            *)
(***************************************************************************)
\* run that calls the callback without entering the context
runWithContext_noEnter(context, current) == current

\* the store inside the callback of RequestContext.runWithContext
runWithContext(context, current) == Def(context)

\* RequestContext.getContext
getContext(current) == current

\* { ...currentContext, ...context }
Spread(currentContext, context) ==
  [k \in DOMAIN currentContext \cup DOMAIN context |->
     IF k \in DOMAIN context THEN context[k] ELSE currentContext[k]]

\* the store after RequestContext.setContext(context) (enterWith)
setContext(context, current) ==
  Def(Spread(IF current.def THEN current.val ELSE EmptyObject, context))

\* the store after RequestContext.updateContext(updates) (enterWith)
updateContext(updates, current) ==
  Def(Spread(IF current.def THEN current.val ELSE EmptyObject, updates))

(***************************************************************************)
(* attachAuditHooks                                                        *)
(***************************************************************************)
Tasks == {"t1", "t2"}

\* most attachAuditHooks calls made
MaxAttach == 2

Models == {"users", "posts"}

\* the context a task runs its body under
ContextOf(t) ==
  IF t = "t1"
  THEN [actorId |-> "1", ip |-> "10.0.0.1", userAgent |-> "curl",
        url |-> "/users", tags |-> "GET"]
  ELSE [actorId |-> "2"]

\* a context set outside every task
OutsideContext == [actorId |-> "0"]

\* the fields a task overwrites in the middle of its body
UpdateOf(t) == [tags |-> t]

\* the context a task hands to a runWithContext call made inside its body
InnerOf(t) == [url |-> t]

\* attachAuditHooks(User, {...}) and attachAuditHooks(Post)
Bindings ==
  {[model  |-> "users",
    config |-> [exclude |-> Undefined, mask |-> Def(<<"password">>),
                onlyDirty |-> "true",
                auditEvents |-> Def(<<"updated", "deleted">>)]],
   [model  |-> "posts",
    config |-> [exclude |-> Undefined, mask |-> Undefined,
                onlyDirty |-> "unset", auditEvents |-> Undefined]]}

\* what AuditModule.forRoot may have stored, or the default
GlobalOptions ==
  {[autoSync |-> "true", onlyDirty |-> "unset"],
   [autoSync |-> "false", onlyDirty |-> "true"]}

\* the mutated record handed to a hook
Instances ==
  {[id |-> "1", dataValues |-> [name |-> "B", password |-> "A"],
    previous |-> [name |-> "A", password |-> "A"]]}

\* the lifecycle events the application fires: it creates and updates users,
\* deletes and restores posts
Mutations ==
  {[model |-> "users", event |-> e, instance |-> i] :
     e \in {"created", "updated"}, i \in Instances}
  \cup {[model |-> "posts", event |-> e, instance |-> i] :
          e \in {"deleted", "restored"}, i \in Instances}

\* a filter that lets every event through
shouldAuditEvent_always(event, config) == TRUE

shouldAuditEvent(event, config) ==
  IF ~config.auditEvents.def \/ Len(config.auditEvents.val) = 0
  THEN TRUE
  ELSE event \in Range(config.auditEvents.val)

\* hooks that pass both snapshots whatever the event
hookOptions_bothSnapshots(event, tableName, instance, context, config, options) ==
  [event        |-> event,
   table        |-> tableName,
   recordId     |-> instance.id,
   oldValues    |-> Def(instance.previous),
   newValues    |-> Def(instance.dataValues),
   context      |-> context,
   config       |-> config,
   globalConfig |-> Def(options)]

\* the options the hook of `event` passes to writeAudit
hookOptions(event, tableName, instance, context, config, options) ==
  [event        |-> event,
   table        |-> tableName,
   recordId     |-> instance.id,
   oldValues    |-> IF event = "updated" THEN Def(instance.previous)
                    ELSE IF event = "deleted" THEN Def(instance.dataValues)
                    ELSE Undefined,
   newValues    |-> IF event = "deleted" THEN Undefined
                    ELSE Def(instance.dataValues),
   context      |-> context,
   config       |-> config,
   globalConfig |-> Def(options)]

\* a hook callback up to its return or its await of create
\* the variant of writeAudit that throws when no handle is set
hookBegin_throwsWithoutHandle(event, tableName, instance, current, config, options, handle) ==
  IF ~shouldAuditEvent(event, config)
  THEN [pending |-> FALSE, called |-> FALSE, result |-> "resolved"]
  ELSE IF handle = "null"
       THEN [pending |-> FALSE, called |-> TRUE, result |-> "rejected"]
       ELSE [pending |-> TRUE, called |-> TRUE,
             entry |-> writeAuditBegin(handle,
                         hookOptions(event, tableName, instance,
                                     getContext(current), config, options)).entry]

hookBegin(event, tableName, instance, current, config, options, handle) ==
  IF ~shouldAuditEvent(event, config)
  THEN [pending |-> FALSE, called |-> FALSE, result |-> "resolved"]
  ELSE LET w == writeAuditBegin(handle,
                  hookOptions(event, tableName, instance,
                              getContext(current), config, options))
       IN IF w.pending
          THEN [pending |-> TRUE, called |-> TRUE, entry |-> w.entry]
          ELSE [pending |-> FALSE, called |-> TRUE, result |-> w.result]

NoEntry == [event |-> "none"]

NoMutation == [event |-> "none"]

\* no awaited helper
NoChild == [pc |-> "none", store |-> Undefined]

IdleTask ==
  [pc |-> "idle", scoped |-> FALSE, store |-> Undefined,
   seen |-> [obs |-> FALSE, value |-> Undefined],
   updated |-> FALSE, nested |-> FALSE,
   saved |-> [store |-> Undefined, updated |-> FALSE], child |-> NoChild,
   mutation |-> NoMutation, todo |-> <<>>, entry |-> NoEntry,
   writerCalls |-> 0, hookResult |-> "none"]

\* no initialisation under way; settled is how the promise that
\* attachAuditHooks builds from ensureAuditModelInitialized(model).catch(...)
\* settled when an initialisation failed
NoInits == [import |-> 0, sync |-> 0, settled |-> "none"]

\* a task that has entered its body: under runWithContext when scoped,
\* otherwise with the store `outer` of the code that started it; the body
\* begins by reading the context
Started(t, scoped, outer) ==
  LET inside == IF scoped THEN runWithContext(ContextOf(t), outer) ELSE outer
  IN [IdleTask EXCEPT !.pc = "running", !.scoped = scoped, !.store = inside,
                      !.seen = [obs |-> TRUE, value |-> getContext(inside)]]

\* nothing attached, no task started
BinderIdle ==
  /\ auditModelInitialized = FALSE
  /\ globalAuditOptions = [autoSync |-> "true", onlyDirty |-> "unset"]
  /\ hooks = <<>>
  /\ inits = NoInits
  /\ syncCalls = 0
  /\ errorLog = {}
  /\ store = Undefined
  /\ task = [t \in Tasks |-> IdleTask]

\* the application is up: nothing is attached yet, request t1 runs under
\* runWithContext and job t2 runs without a context
Init ==
  /\ globalAuditModel = "null"
  /\ audits = <<>>
  /\ auditModelInitialized = FALSE
  /\ globalAuditOptions \in GlobalOptions
  /\ hooks = <<>>
  /\ inits = NoInits
  /\ syncCalls = 0
  /\ errorLog = {}
  /\ store = Undefined
  /\ task = [t \in Tasks |-> Started(t, t = "t1", Undefined)]
  /\ call = "none"
  /\ ret = "none"

\* attachAuditHooks(model, config): starts ensureAuditModelInitialized, which
\* returns at once when the flag is set and otherwise suspends at its first
\* await, and registers the four hooks
AttachAuditHooks(model, config) ==
  /\ Len(hooks) < MaxAttach
  /\ inits' = IF auditModelInitialized THEN inits
              ELSE [inits EXCEPT !.import = @ + 1]
  /\ hooks' = Append(hooks, [model |-> model, config |-> config])
  /\ UNCHANGED <<globalAuditModel, audits, auditModelInitialized,
                 globalAuditOptions, syncCalls, errorLog, store, task,
                 call, ret>>

\* an ensureAuditModelInitialized call after its imports: defines the model,
\* sets the handle and either awaits sync or sets the flag
InitDefine ==
  /\ inits.import > 0
  /\ globalAuditModel' = "AuditModel"
  /\ IF globalAuditOptions.autoSync # "false"
     THEN /\ inits' = [inits EXCEPT !.import = @ - 1, !.sync = @ + 1]
          /\ syncCalls' = syncCalls + 1
          /\ UNCHANGED auditModelInitialized
     ELSE /\ inits' = [inits EXCEPT !.import = @ - 1]
          /\ auditModelInitialized' = TRUE
          /\ UNCHANGED syncCalls
  /\ UNCHANGED <<audits, globalAuditOptions, hooks, errorLog, store, task, call, ret>>

\* AuditModel.sync resolves
InitSyncSucceeds ==
  /\ inits.sync > 0
  /\ inits' = [inits EXCEPT !.sync = @ - 1]
  /\ auditModelInitialized' = TRUE
  /\ UNCHANGED <<globalAuditModel, audits, globalAuditOptions, hooks,
                 syncCalls, errorLog, store, task, call, ret>>

\* the catch handler of attachAuditHooks: it logs and returns, so the promise
\* is fulfilled; attachAuditHooks itself has returned before
onInitError == "resolved"

\* a failed sync that sets the flag all the same
InitSyncFails_setsFlag ==
  /\ inits.sync > 0
  /\ inits' = [inits EXCEPT !.sync = @ - 1, !.settled = onInitError]
  /\ errorLog' = errorLog \cup {"initialize"}
  /\ auditModelInitialized' = TRUE
  /\ UNCHANGED <<globalAuditModel, audits, globalAuditOptions, hooks,
                 syncCalls, store, task, call, ret>>

\* AuditModel.sync rejects: the error is logged and rethrown twice, then
\* logged by the catch of attachAuditHooks
InitSyncFails ==
  /\ inits.sync > 0
  /\ inits' = [inits EXCEPT !.sync = @ - 1, !.settled = onInitError]
  /\ errorLog' = errorLog \cup {"initialize"}
  /\ UNCHANGED <<globalAuditModel, audits, auditModelInitialized,
                 globalAuditOptions, hooks, syncCalls, store, task,
                 call, ret>>

\* the hooks registered for a model, in registration order
RECURSIVE ConfigsOf(_, _)
ConfigsOf(registered, model) ==
  IF registered = <<>> THEN <<>>
  ELSE IF Head(registered).model = model
       THEN <<Head(registered).config>> \o ConfigsOf(Tail(registered), model)
       ELSE ConfigsOf(Tail(registered), model)

\* the task after a hook has settled with `result`: a rejection fails the
\* mutation, otherwise the next hook of the event is due
afterHook(state, result) ==
  LET failed == result = "rejected"
      rest   == IF failed THEN <<>> ELSE Tail(state.todo)
  IN [state EXCEPT !.pc = IF rest = <<>> THEN "done" ELSE "hooks",
                   !.todo = rest,
                   !.entry = NoEntry,
                   !.hookResult = IF failed THEN "rejected" ELSE @]

\* the task after the hook at the head of its list has run up to its return
\* or its await of create
hookStep(state, options, handle) ==
  LET m == state.mutation
      h == hookBegin(m.event, m.model, m.instance, state.store,
                     Head(state.todo), options, handle)
      counted == [state EXCEPT !.writerCalls = IF h.called THEN @ + 1 ELSE @]
  IN IF h.pending
     THEN [counted EXCEPT !.pc = "create", !.entry = h.entry]
     ELSE afterHook(counted, h.result)

\* a task mutates a record, once: the lifecycle event runs the hooks
\* registered for the model one after the other, and the first one starts
\* at once
Mutate(t, model, event, instance) ==
  /\ task[t].pc = "running"
  /\ ConfigsOf(hooks, model) # <<>>
  /\ task' = [task EXCEPT ![t] =
                hookStep([@ EXCEPT !.pc = "hooks",
                                   !.mutation = [event |-> event, model |-> model,
                                                 instance |-> instance],
                                   !.todo = ConfigsOf(hooks, model)],
                         globalAuditOptions, globalAuditModel)]
  /\ UNCHANGED <<globalAuditModel, audits, auditModelInitialized,
                 globalAuditOptions, hooks, inits, syncCalls, errorLog, store,
                 call, ret>>

\* the next hook of the event runs up to its return or its await of create
RunHook(t) ==
  /\ task[t].pc = "hooks"
  /\ task' = [task EXCEPT ![t] = hookStep(@, globalAuditOptions, globalAuditModel)]
  /\ UNCHANGED <<globalAuditModel, audits, auditModelInitialized,
                 globalAuditOptions, hooks, inits, syncCalls, errorLog, store, call, ret>>

\* the storage inserts the row of a hook's writeAudit
CreateSucceeds(t) ==
  /\ task[t].pc = "create"
  /\ audits' = create(audits, task[t].entry)
  /\ task' = [task EXCEPT ![t] = afterHook(@, "resolved")]
  /\ UNCHANGED <<globalAuditModel, auditModelInitialized, globalAuditOptions,
                 hooks, inits, syncCalls, errorLog, store, call, ret>>

\* the storage rejects the insert of a hook's writeAudit
CreateFails(t) ==
  /\ task[t].pc = "create"
  /\ errorLog' = errorLog \cup {"write"}
  /\ task' = [task EXCEPT ![t] = afterHook(@, onCreateError)]
  /\ UNCHANGED <<globalAuditModel, audits, auditModelInitialized,
                 globalAuditOptions, hooks, inits, syncCalls, store,
                 call, ret>>

Next ==
  \/ \E b \in Bindings : AttachAuditHooks(b.model, b.config)
  \/ InitDefine
  \/ InitSyncSucceeds
  \/ InitSyncFails
  \/ \E t \in Tasks, m \in Mutations : Mutate(t, m.model, m.event, m.instance)
  \/ \E t \in Tasks : RunHook(t)
  \/ \E t \in Tasks : CreateSucceeds(t)
  \/ \E t \in Tasks : CreateFails(t)

Spec == Init /\ [][Next]_vars

(***************************************************************************)
(* The application after start-up: the hooks are attached, the storage is  *)
(* provisioned, and the tasks mutate users                                 *)
(***************************************************************************)
\* attachAuditHooks(User, {...}) as two services call it
UserBindings ==
  {[model  |-> "users",
    config |-> [exclude |-> Undefined, mask |-> Def(<<"password">>),
                onlyDirty |-> "true",
                auditEvents |-> Def(<<"updated", "deleted">>)]],
   [model  |-> "users",
    config |-> [exclude |-> Undefined, mask |-> Undefined,
                onlyDirty |-> "false", auditEvents |-> Undefined]]}

\* the attachAuditHooks calls made during start-up, in order
AttachedHooks == UNION {[1..n -> UserBindings] : n \in 1..MaxAttach}

\* start-up is over: the calls are made, the first initialisation has
\* succeeded and the later calls found the flag set
InitAttached ==
  /\ globalAuditModel = "AuditModel"
  /\ audits = <<>>
  /\ auditModelInitialized = TRUE
  /\ globalAuditOptions \in GlobalOptions
  /\ hooks \in AttachedHooks
  /\ inits = NoInits
  /\ syncCalls = IF globalAuditOptions.autoSync # "false" THEN 1 ELSE 0
  /\ errorLog = {}
  /\ store = Undefined
  /\ task = [t \in Tasks |-> Started(t, t = "t1", Undefined)]
  /\ call = "none"
  /\ ret = "none"

NextAttached ==
  \/ \E t \in Tasks, m \in Mutations : Mutate(t, m.model, m.event, m.instance)
  \/ \E t \in Tasks : RunHook(t)
  \/ \E t \in Tasks : CreateSucceeds(t)
  \/ \E t \in Tasks : CreateFails(t)

SpecAttached == InitAttached /\ [][NextAttached]_vars

(***************************************************************************)
(* Tasks and their contexts: each task is one chain of continuations       *)
(***************************************************************************)
InitContext ==
  /\ BinderIdle
  /\ globalAuditModel = "null"
  /\ audits = <<>>
  /\ call = "none"
  /\ ret = "none"

\* RequestContext.setContext called by top-level code
SetContextOutside ==
  /\ store = Undefined
  /\ store' = setContext(OutsideContext, store)
  /\ UNCHANGED <<globalAuditModel, audits, auditModelInitialized,
                 globalAuditOptions, hooks, inits, syncCalls, errorLog, task,
                 call, ret>>

\* top-level code starts a task, under runWithContext when scoped
TaskStart(t, scoped) ==
  /\ task[t].pc = "idle"
  /\ task' = [task EXCEPT ![t] = Started(t, scoped, store)]
  /\ UNCHANGED <<globalAuditModel, audits, auditModelInitialized,
                 globalAuditOptions, hooks, inits, syncCalls, errorLog, store,
                 call, ret>>

\* the task is in the synchronous part of a body that was called without
\* runWithContext: it runs on the execution of its caller
Shared(t) == ~task[t].scoped /\ ~task[t].nested /\ task[t].pc = "running"

\* the store of the execution the task runs on
Current(t) == IF Shared(t) THEN store ELSE task[t].store

\* the store after the run of AsyncLocalStorage returns: the one saved on
\* entry, whatever the callback entered
afterRun(saved, inside) == saved

\* the task calls RequestContext.updateContext: enterWith replaces the store
\* of the running execution
TaskUpdate(t) ==
  /\ task[t].pc \in {"running", "resumed"}
  /\ LET entered == updateContext(UpdateOf(t), Current(t))
     IN /\ task' = [task EXCEPT ![t].store = entered,
                                ![t].updated = TRUE,
                                ![t].seen = [obs |-> FALSE, value |-> Undefined]]
        /\ store' = IF Shared(t) THEN entered ELSE store
  /\ UNCHANGED <<globalAuditModel, audits, auditModelInitialized,
                 globalAuditOptions, hooks, inits, syncCalls, errorLog,
                 call, ret>>

\* the task calls runWithContext inside its body and reads the context in
\* the inner body
TaskEnter(t) ==
  /\ task[t].pc \in {"running", "resumed"}
  /\ ~task[t].nested
  /\ LET inside == runWithContext(InnerOf(t), Current(t))
     IN task' = [task EXCEPT ![t].nested = TRUE,
                             ![t].saved = [store |-> Current(t),
                                           updated |-> task[t].updated],
                             ![t].store = inside,
                             ![t].updated = FALSE,
                             ![t].seen = [obs |-> TRUE,
                                          value |-> getContext(inside)]]
  /\ UNCHANGED <<globalAuditModel, audits, auditModelInitialized,
                 globalAuditOptions, hooks, inits, syncCalls, errorLog, store,
                 call, ret>>

\* the inner body returns and the task reads the context again
TaskLeave(t) ==
  /\ task[t].pc \in {"running", "resumed"}
  /\ task[t].nested
  /\ LET outside == afterRun(task[t].saved.store, task[t].store)
     IN task' = [task EXCEPT ![t].nested = FALSE,
                             ![t].saved = IdleTask.saved,
                             ![t].store = outside,
                             ![t].updated = task[t].saved.updated,
                             ![t].seen = [obs |-> TRUE,
                                          value |-> getContext(outside)]]
  /\ UNCHANGED <<globalAuditModel, audits, auditModelInitialized,
                 globalAuditOptions, hooks, inits, syncCalls, errorLog, store,
                 call, ret>>

\* the task suspends at an await: its continuation keeps the store of the
\* execution that created it
TaskAwait(t) ==
  /\ task[t].pc \in {"running", "resumed"}
  /\ task' = [task EXCEPT ![t].pc = "awaiting", ![t].store = Current(t)]
  /\ UNCHANGED <<globalAuditModel, audits, auditModelInitialized,
                 globalAuditOptions, hooks, inits, syncCalls, errorLog, store,
                 call, ret>>

\* the task calls an async helper and awaits it; the helper suspends at an
\* await of its own, and both continuations keep the store of the task
TaskCall(t) ==
  /\ task[t].pc \in {"running", "resumed"}
  /\ task' = [task EXCEPT ![t].pc = "awaiting", ![t].store = Current(t),
                          ![t].child = [pc |-> "awaiting", store |-> Current(t)]]
  /\ UNCHANGED <<globalAuditModel, audits, auditModelInitialized,
                 globalAuditOptions, hooks, inits, syncCalls, errorLog, store,
                 call, ret>>

\* the continuation of the helper calls RequestContext.updateContext and
\* the helper returns
ChildUpdate(t) ==
  /\ task[t].child.pc = "awaiting"
  /\ task' = [task EXCEPT ![t].child = [pc |-> "returned",
                                        store |-> updateContext(UpdateOf(t),
                                                                task[t].child.store)],
                          ![t].updated = TRUE,
                          ![t].seen = [obs |-> FALSE, value |-> Undefined]]
  /\ UNCHANGED <<globalAuditModel, audits, auditModelInitialized,
                 globalAuditOptions, hooks, inits, syncCalls, errorLog, store,
                 call, ret>>

\* the continuation of the task runs and reads the context
TaskResume(t) ==
  /\ task[t].pc = "awaiting"
  /\ task[t].child.pc # "awaiting"
  /\ task' = [task EXCEPT ![t].pc = "resumed",
                          ![t].child = NoChild,
                          ![t].seen = [obs |-> TRUE,
                                       value |-> getContext(task[t].store)]]
  /\ UNCHANGED <<globalAuditModel, audits, auditModelInitialized,
                 globalAuditOptions, hooks, inits, syncCalls, errorLog, store,
                 call, ret>>

\* the body of the task returns
TaskEnd(t) ==
  /\ task[t].pc \in {"running", "resumed"}
  /\ ~task[t].nested
  /\ task' = [task EXCEPT ![t] = IdleTask]
  /\ UNCHANGED <<globalAuditModel, audits, auditModelInitialized,
                 globalAuditOptions, hooks, inits, syncCalls, errorLog, store,
                 call, ret>>

NextContext ==
  \/ SetContextOutside
  \/ \E t \in Tasks, scoped \in BOOLEAN : TaskStart(t, scoped)
  \/ \E t \in Tasks : TaskUpdate(t)
  \/ \E t \in Tasks : TaskEnter(t)
  \/ \E t \in Tasks : TaskLeave(t)
  \/ \E t \in Tasks : TaskAwait(t)
  \/ \E t \in Tasks : TaskCall(t)
  \/ \E t \in Tasks : ChildUpdate(t)
  \/ \E t \in Tasks : TaskResume(t)
  \/ \E t \in Tasks : TaskEnd(t)

SpecContext == InitContext /\ [][NextContext]_vars

(***************************************************************************)
(* RequestContextInterceptor: every request is a task whose handler runs   *)
(* under the context built from the request                                *)
(***************************************************************************)
\* most values the handler of one request emits
MaxEmits == 2

null == "null"

\* a || b
\* the number 0 and the number 7, as opposed to the strings "0" and "7"
NumberZero == "number 0"

NumberSeven == "number 7"

\* the values that count as false
Falsy == {undefined, null, "", NumberZero}

OrElse(a, b) == IF a \in Falsy THEN b ELSE a

\* the requests: user is what the authentication put on the request,
\* remoteAddress is connection?.remoteAddress, userAgent the User-Agent header
Requests ==
  {[user |-> Def([id |-> "7"]), ip |-> "10.0.0.1", remoteAddress |-> "10.0.0.2",
    userAgent |-> "curl", originalUrl |-> "/users/1", url |-> "/1",
    method |-> "PUT"],
   [user |-> Undefined, ip |-> undefined, remoteAddress |-> "10.0.0.2",
    userAgent |-> undefined, originalUrl |-> undefined, url |-> "/posts",
    method |-> "DELETE"],
   [user |-> Def([name |-> "x"]), ip |-> undefined, remoteAddress |-> undefined,
    userAgent |-> "curl", originalUrl |-> "/posts/2", url |-> "/2",
    method |-> "POST"]}

\* the auth option when none is configured: { type: 'passport' }
PassportAuth == [userProperty |-> undefined, userIdField |-> undefined]

\* the constructor of PassportUserResolver
userProperty(config) == OrElse(config.userProperty, "user")

userIdField(config) == OrElse(config.userIdField, "id")

\* PassportUserResolver.resolve of a resolver built with `config`
resolve(config, request) ==
  LET user == request[userProperty(config)]
  IN IF ~user.def THEN null
     ELSE OrElse(Get(user.val, userIdField(config)), null)

\* a context built without the resolver
auditContext_noActor(request) ==
  [actorId   |-> undefined,
   ip        |-> OrElse(request.ip, request.remoteAddress),
   userAgent |-> request.userAgent,
   url       |-> OrElse(request.originalUrl, request.url),
   tags      |-> [method |-> request.method]]

\* the auditContext object intercept builds
auditContext(request) ==
  [actorId   |-> resolve(PassportAuth, request),
   ip        |-> OrElse(request.ip, request.remoteAddress),
   userAgent |-> request.userAgent,
   url       |-> OrElse(request.originalUrl, request.url),
   tags      |-> [method |-> request.method]]

\* a forwarding callback that replaces the value
forwardNext_replaces(value) == [kind |-> "next", value |-> "A"]

\* (value) => observer.next(value)
forwardNext(value) == [kind |-> "next", value |-> value]

\* (error) => observer.error(error)
forwardError(error) == [kind |-> "error", value |-> error]

\* () => observer.complete()
forwardComplete == [kind |-> "complete", value |-> undefined]

\* the observable of a request: what next.handle() has delivered to the
\* callbacks of intercept and what the subscriber of intercept has received
NoStream ==
  [sub |-> "none", unsubscribed |-> FALSE, emitted |-> <<>>, delivered |-> <<>>]

\* the subscriber receives a notification unless it has unsubscribed
deliver(stream, notification) ==
  IF stream.unsubscribed THEN stream.delivered
  ELSE Append(stream.delivered, notification)

InitIntercept ==
  /\ BinderIdle
  /\ globalAuditModel = "null"
  /\ audits = <<>>
  /\ call \in [Tasks -> Requests]
  /\ ret = [t \in Tasks |-> NoStream]

\* the observable returned by intercept is subscribed: the context is built
\* and next.handle() is subscribed inside runWithContext, which starts the
\* handler; the handler reads the context
Subscribe(t) ==
  /\ ret[t].sub = "none"
  /\ ret' = [ret EXCEPT ![t].sub = "open"]
  /\ LET inside == runWithContext(auditContext(call[t]), store)
     IN task' = [task EXCEPT ![t] =
                   [IdleTask EXCEPT !.pc = "running", !.scoped = TRUE,
                                    !.store = inside,
                                    !.seen = [obs |-> TRUE,
                                              value |-> getContext(inside)]]]
  /\ UNCHANGED <<globalAuditModel, audits, auditModelInitialized,
                 globalAuditOptions, hooks, inits, syncCalls, errorLog, store,
                 call>>

\* next.handle() emits a value: the handler is asynchronous, what it returns
\* or throws reaches the observable after its awaited work
Emit(t, value) ==
  /\ ret[t].sub = "open"
  /\ task[t].pc = "resumed"
  /\ Len(ret[t].emitted) < MaxEmits
  /\ ret' = [ret EXCEPT ![t].emitted = Append(@, [kind |-> "next", value |-> value]),
                        ![t].delivered = deliver(ret[t], forwardNext(value))]
  /\ UNCHANGED <<globalAuditModel, audits, auditModelInitialized,
                 globalAuditOptions, hooks, inits, syncCalls, errorLog, store,
                 task, call>>

\* next.handle() fails
Fail(t) ==
  /\ ret[t].sub = "open"
  /\ task[t].pc = "resumed"
  /\ ret' = [ret EXCEPT ![t].sub = "ended",
                        ![t].emitted = Append(@, [kind |-> "error", value |-> "E"]),
                        ![t].delivered = deliver(ret[t], forwardError("E"))]
  /\ UNCHANGED <<globalAuditModel, audits, auditModelInitialized,
                 globalAuditOptions, hooks, inits, syncCalls, errorLog, store,
                 task, call>>

\* next.handle() completes
Complete(t) ==
  /\ ret[t].sub = "open"
  /\ task[t].pc = "resumed"
  /\ ret' = [ret EXCEPT ![t].sub = "ended",
                        ![t].emitted = Append(@, [kind |-> "complete", value |-> undefined]),
                        ![t].delivered = deliver(ret[t], forwardComplete)]
  /\ UNCHANGED <<globalAuditModel, audits, auditModelInitialized,
                 globalAuditOptions, hooks, inits, syncCalls, errorLog, store,
                 task, call>>

\* the subscriber of intercept unsubscribes: the function the callback of
\* runWithContext returns is not handed on, so next.handle() stays subscribed
Unsubscribe(t) ==
  /\ ret[t].sub = "open"
  /\ ~ret[t].unsubscribed
  /\ ret' = [ret EXCEPT ![t].unsubscribed = TRUE]
  /\ UNCHANGED <<globalAuditModel, audits, auditModelInitialized,
                 globalAuditOptions, hooks, inits, syncCalls, errorLog, store,
                 task, call>>

NextIntercept ==
  \/ \E t \in Tasks : Subscribe(t)
  \/ \E t \in Tasks, value \in Values : Emit(t, value)
  \/ \E t \in Tasks : Fail(t)
  \/ \E t \in Tasks : Complete(t)
  \/ \E t \in Tasks : Unsubscribe(t)
  \/ \E t \in Tasks : TaskAwait(t)
  \/ \E t \in Tasks : TaskResume(t)

SpecIntercept == InitIntercept /\ [][NextIntercept]_vars

(***************************************************************************)
(* The resolver on its own                                                 *)
(***************************************************************************)
\* the auth options of AuditModule.forRoot
AuthConfigs ==
  [userProperty : {undefined, "account"}, userIdField : {undefined, "sub"}]

\* identifier values: strings and numbers
Ids == {"7", "0", NumberSeven, NumberZero}

\* the principal objects an authentication strategy puts on the request
Principals == UNION {[F -> Ids] : F \in SUBSET {"id", "sub"}}

OptPrincipals == {Undefined} \cup {Def(u) : u \in Principals}

ResolveRequests == [user : OptPrincipals, account : OptPrincipals]

InitResolve ==
  /\ BinderIdle
  /\ globalAuditModel = "null"
  /\ audits = <<>>
  /\ call \in [config : AuthConfigs, request : ResolveRequests]
  /\ ret = [pc |-> "start"]

\* new PassportUserResolver(config).resolve(context)
ResolveCall ==
  /\ ret.pc = "start"
  /\ ret' = [pc |-> "done", value |-> resolve(call.config, call.request)]
  /\ UNCHANGED <<globalAuditModel, audits, binderVars, call>>

NextResolve == ResolveCall

SpecResolve == InitResolve /\ [][NextResolve]_vars

(***************************************************************************)
(* Single-call specifications: the inputs are drawn in the initial state   *)
(***************************************************************************)
AuditConfigs ==
  [exclude : OptConfigLists, mask : OptConfigLists, onlyDirty : Flags]

GlobalConfigs == {Undefined} \cup {Def([onlyDirty |-> f]) : f \in Flags}

NoContext == Undefined

WriteOptions ==
  [event : Events, table : {"users"}, recordId : {"1"},
   oldValues : OptWriteObjects, newValues : OptWriteObjects,
   context : {NoContext}, config : AuditConfigs, globalConfig : GlobalConfigs]

InitWrite ==
  /\ BinderIdle
  /\ globalAuditModel \in {"null", "AuditModel"}
  /\ audits = <<>>
  /\ call \in WriteOptions
  /\ ret = [pc |-> "start"]

\* writeAudit(call) runs to its first suspension point
WriteAuditCall ==
  /\ ret.pc = "start"
  /\ LET r == writeAuditBegin(globalAuditModel, call)
     IN ret' = IF r.pending
               THEN [pc |-> "create", entry |-> r.entry]
               ELSE [pc |-> "settled", result |-> r.result,
                     attempted |-> FALSE, created |-> FALSE]
  /\ call' = optionsAfter(globalAuditModel, call)
  /\ UNCHANGED <<globalAuditModel, audits, binderVars>>

\* the storage inserts the row
WriteCreateSucceeds ==
  /\ ret.pc = "create"
  /\ audits' = create(audits, ret.entry)
  /\ ret' = [pc |-> "settled", result |-> "resolved",
             attempted |-> TRUE, created |-> TRUE]
  /\ UNCHANGED <<globalAuditModel, call, binderVars>>

\* the storage rejects the insert
WriteCreateFails ==
  /\ ret.pc = "create"
  /\ ret' = [pc |-> "settled", result |-> onCreateError,
             attempted |-> TRUE, created |-> FALSE]
  /\ UNCHANGED <<globalAuditModel, audits, call, binderVars>>

NextWrite == WriteAuditCall \/ WriteCreateSucceeds \/ WriteCreateFails

SpecWrite == InitWrite /\ [][NextWrite]_vars

\* global options that carry redaction lists next to the dirty-only flag
ListedGlobalConfigs ==
  {Def([onlyDirty |-> "unset", exclude |-> e, mask |-> m]) :
     e \in OptConfigLists, m \in OptConfigLists}

\* writeAudit calls of the hooks of a model bound under such global options
ListedWriteOptions ==
  [event : {"created", "restored"}, table : {"users"}, recordId : {"1"},
   oldValues : {Undefined}, newValues : OptWriteObjects \ {Undefined},
   context : {NoContext},
   config : [exclude : OptConfigLists, mask : OptConfigLists, onlyDirty : {"unset"}],
   globalConfig : ListedGlobalConfigs]

InitListed ==
  /\ BinderIdle
  /\ globalAuditModel \in {"null", "AuditModel"}
  /\ audits = <<>>
  /\ call \in ListedWriteOptions
  /\ ret = [pc |-> "start"]

SpecListed == InitListed /\ [][NextWrite]_vars


RedactInputs ==
  [values : OptObjects, config : [exclude : OptFieldLists, mask : OptFieldLists]]

InitRedact ==
  /\ BinderIdle
  /\ globalAuditModel = "null"
  /\ audits = <<>>
  /\ call \in RedactInputs
  /\ ret = [pc |-> "start"]

\* applyExcludeAndMask(call.values, call.config) returns
RedactCall ==
  /\ ret.pc = "start"
  /\ ret' = [pc |-> "settled",
             value |-> applyExcludeAndMask(call.values, call.config)]
  /\ UNCHANGED <<globalAuditModel, audits, call, binderVars>>

NextRedact == RedactCall

SpecRedact == InitRedact /\ [][NextRedact]_vars

DiffInputs == [oldValues : Objects, newValues : Objects]

InitDiff ==
  /\ BinderIdle
  /\ globalAuditModel = "null"
  /\ audits = <<>>
  /\ call \in DiffInputs
  /\ ret = [pc |-> "start"]

\* getChangedFields(call.oldValues, call.newValues) returns
DiffCall ==
  /\ ret.pc = "start"
  /\ ret' = [pc |-> "settled",
             value |-> getChangedFields(call.oldValues, call.newValues)]
  /\ UNCHANGED <<globalAuditModel, audits, call, binderVars>>

NextDiff == DiffCall

SpecDiff == InitDiff /\ [][NextDiff]_vars


(***************************************************************************)
(* Properties                                                              *)
(***************************************************************************)
\* the fields an optional list names
ListSet(list) == IF list.def THEN Range(list.val) ELSE {}

\* a snapshot without the fields E and with the fields M masked
Redacted(s, E, M) == [k \in DOMAIN s \ E |-> IF k \in M THEN MASKED ELSE s[k]]

\* the fields held by exactly one snapshot, or by both with different values
Changed(old, new) ==
  {k \in DOMAIN old \cup DOMAIN new :
     \/ (k \in DOMAIN old) # (k \in DOMAIN new)
     \/ k \in DOMAIN old /\ k \in DOMAIN new /\ old[k] # new[k]}

NoDuplicates(list) ==
  \A i, j \in 1..Len(list) : list[i] = list[j] => i = j

\* the single call has handed an entry to the storage
HasEntry == ret.pc = "create" \/ Len(audits) > 0

TheEntry == IF ret.pc = "create" THEN ret.entry ELSE audits[1]

\* the dirty-only flag the configuration of the call asks for
WantedDirty ==
  IF call.config.onlyDirty # "unset" THEN call.config.onlyDirty = "true"
  ELSE IF call.globalConfig.def /\ call.globalConfig.val.onlyDirty # "unset"
       THEN call.globalConfig.val.onlyDirty = "true"
       ELSE FALSE

BothGiven == call.oldValues.def /\ call.newValues.def

\* C1: every writeAudit call settles by resolving, never by rejecting,
\* whether the handle is set or not and whether create succeeds or fails.
C1_WriteAuditNeverRejects ==
  ret.pc = "settled" => ret.result = "resolved"

\* a call whose create was attempted and failed has settled
C1_Witness ==
  /\ ret.pc = "settled"
  /\ globalAuditModel = "AuditModel"
  /\ ret.attempted
  /\ ~ret.created

\* C4: the redactor returns the snapshot without the excluded keys, with
\* the mask-listed keys that remain set to the sentinel and every other
\* value kept; an absent snapshot stays absent.
C4_RedactContract ==
  ret.pc = "settled" =>
    IF call.values.def
    THEN /\ ret.value.def
         /\ ret.value.val = Redacted(call.values.val,
                                     ListSet(call.config.exclude),
                                     ListSet(call.config.mask))
         /\ (ListSet(call.config.exclude) = {} /\ ListSet(call.config.mask) = {}
               => ret.value = call.values)
    ELSE ret.value = Undefined

\* a snapshot with one key excluded and masked, one masked, one kept
C4_Witness ==
  /\ ret.pc = "settled"
  /\ call.values.def
  /\ DOMAIN call.values.val = Fields
  /\ call.config.exclude = Def(<<"password">>)
  /\ call.config.mask = Def(<<"password", "phone">>)
  /\ DOMAIN ret.value.val = {"name", "phone"}
  /\ ret.value.val["phone"] = MASKED

ExcludeSet == ListSet(call.config.exclude)

MaskSet == ListSet(call.config.mask)

\* the values of an entry snapshot under the listed keys
SnapshotRedacted(snapshot) ==
  snapshot.def =>
    /\ DOMAIN snapshot.val \cap ExcludeSet = {}
    /\ \A k \in DOMAIN snapshot.val \cap MaskSet : snapshot.val[k] = MASKED

\* C5: in every entry handed to the storage no excluded field is a key of
\* old_values or new_values and every mask-listed key carries the sentinel,
\* for every event kind and with dirty-only on or off.
C5_EntryIsRedacted ==
  HasEntry =>
    /\ SnapshotRedacted(TheEntry.oldValues)
    /\ SnapshotRedacted(TheEntry.newValues)

\* an entry whose input had an excluded field and a masked field
C5_Witness ==
  /\ Len(audits) = 1
  /\ call.newValues.def
  /\ DOMAIN call.newValues.val = WriteFields
  /\ call.config.exclude = Def(<<"name">>)
  /\ call.config.mask = Def(<<"password">>)
  /\ audits[1].newValues = Def([password |-> MASKED])

DirtyUpdate ==
  /\ HasEntry
  /\ call.event = "updated"
  /\ WantedDirty
  /\ BothGiven

\* C7 as stated: a dirty-only 'updated' entry has the same key set in
\* old_values and new_values, also when a key was added or removed.
C7_SameKeySets ==
  DirtyUpdate =>
    /\ TheEntry.oldValues.def
    /\ TheEntry.newValues.def
    /\ DOMAIN TheEntry.oldValues.val = DOMAIN TheEntry.newValues.val

\* C7 amended: a dirty-only 'updated' entry holds in old_values exactly the
\* changed, not excluded fields the old snapshot has and in new_values
\* exactly those the new snapshot has; the key sets agree when the two
\* snapshots have the same keys and both are empty when nothing changed.
C7_KeySetsPerSide ==
  DirtyUpdate =>
    LET old     == call.oldValues.val
        new     == call.newValues.val
        changed == Changed(old, new)
    IN /\ TheEntry.oldValues.def
       /\ TheEntry.newValues.def
       /\ DOMAIN TheEntry.oldValues.val = (changed \cap DOMAIN old) \ ExcludeSet
       /\ DOMAIN TheEntry.newValues.val = (changed \cap DOMAIN new) \ ExcludeSet
       /\ (DOMAIN old = DOMAIN new =>
             DOMAIN TheEntry.oldValues.val = DOMAIN TheEntry.newValues.val)
       /\ (changed = {} =>
             /\ TheEntry.oldValues.val = EmptyObject
             /\ TheEntry.newValues.val = EmptyObject)

\* a stored dirty-only update with one changed and one added key
C7_Witness ==
  /\ DirtyUpdate
  /\ Len(audits) = 1
  /\ DOMAIN call.oldValues.val = {"name"}
  /\ DOMAIN call.newValues.val = {"name", "password"}
  /\ call.oldValues.val["name"] # call.newValues.val["name"]
  /\ ExcludeSet = {}
  /\ DOMAIN audits[1].oldValues.val = {"name"}
  /\ DOMAIN audits[1].newValues.val = {"name", "password"}

\* an optional snapshot after redaction only
RedactedOnly(snapshot) ==
  IF snapshot.def THEN Def(Redacted(snapshot.val, ExcludeSet, MaskSet))
  ELSE Undefined

\* C8: with dirty-only active and both snapshots given, a field of equal
\* value in old and new is in neither written snapshot and every changed,
\* not excluded field is in the written snapshot of each side that has it;
\* with dirty-only off the written snapshots are the full ones, redacted.
C8_DirtyFiltering ==
  HasEntry =>
    IF WantedDirty
    THEN BothGiven =>
           LET old == call.oldValues.val
               new == call.newValues.val
               wo  == TheEntry.oldValues.val
               wn  == TheEntry.newValues.val
           IN /\ \A k \in DOMAIN old \cap DOMAIN new :
                   old[k] = new[k] => k \notin DOMAIN wo /\ k \notin DOMAIN wn
              /\ \A k \in Changed(old, new) \ ExcludeSet :
                   /\ k \in DOMAIN old => k \in DOMAIN wo
                   /\ k \in DOMAIN new => k \in DOMAIN wn
                   /\ k \in DOMAIN wo \cup DOMAIN wn
    ELSE /\ TheEntry.oldValues = RedactedOnly(call.oldValues)
         /\ TheEntry.newValues = RedactedOnly(call.newValues)

\* a stored dirty-only entry that dropped an unchanged field and kept a
\* changed one
C8_Witness ==
  /\ Len(audits) = 1
  /\ WantedDirty
  /\ BothGiven
  /\ DOMAIN call.oldValues.val = WriteFields
  /\ DOMAIN call.newValues.val = WriteFields
  /\ call.oldValues.val["name"] # call.newValues.val["name"]
  /\ call.oldValues.val["password"] = call.newValues.val["password"]
  /\ DOMAIN audits[1].oldValues.val = {"name"}
  /\ DOMAIN audits[1].newValues.val = {"name"}

UnchangedDirtyUpdate ==
  /\ globalAuditModel = "AuditModel"
  /\ call.event = "updated"
  /\ WantedDirty
  /\ BothGiven
  /\ call.oldValues = call.newValues

EmptyUpdate(entry) ==
  /\ entry.event = "updated"
  /\ entry.oldValues = Def(EmptyObject)
  /\ entry.newValues = Def(EmptyObject)

\* C9: with dirty-only active and old equal to new in every field, the
\* write is not omitted: create is called with an 'updated' entry whose
\* old_values and new_values are both the empty object, and that entry is
\* the row stored when create succeeds.
C9_UnchangedUpdateStillWritten ==
  UnchangedDirtyUpdate =>
    /\ ret.pc = "create" => EmptyUpdate(ret.entry)
    /\ ret.pc = "settled" =>
         /\ ret.attempted
         /\ ret.created => Len(audits) = 1 /\ EmptyUpdate(audits[1])

\* such an update of a non-empty record has been stored
C9_Witness ==
  /\ UnchangedDirtyUpdate
  /\ DOMAIN call.oldValues.val = WriteFields
  /\ ret.pc = "settled"
  /\ ret.created
  /\ Len(audits) = 1

\* C10: the dirty-only flag in force is the model's onlyDirty when set,
\* otherwise the global option's when set, otherwise false: the written
\* snapshots are filtered to the changed fields exactly when that flag is
\* true.
C10_OnlyDirtyPrecedence ==
  HasEntry /\ BothGiven =>
    LET old == call.oldValues.val
        new == call.newValues.val
        keep(side) == IF WantedDirty THEN Changed(old, new) \cap DOMAIN side
                      ELSE DOMAIN side
    IN /\ DOMAIN TheEntry.oldValues.val = keep(old) \ ExcludeSet
       /\ DOMAIN TheEntry.newValues.val = keep(new) \ ExcludeSet

\* a model with onlyDirty=false under a global onlyDirty=true stored an
\* unchanged field
C10_Witness ==
  /\ Len(audits) = 1
  /\ BothGiven
  /\ call.config.onlyDirty = "false"
  /\ call.globalConfig = Def([onlyDirty |-> "true"])
  /\ call.oldValues = call.newValues
  /\ DOMAIN audits[1].newValues.val = WriteFields

(***************************************************************************)
(* The hooks under audit-side failures                                     *)
(***************************************************************************)
\* C2: no hook callback of a bound model ever completes by raising, whether
\* the storage handle is unset, the initialisation is under way or has
\* failed, or create rejects: no mutation is failed by its audit hooks.
C2_HooksNeverRaise ==
  \A t \in Tasks : task[t].hookResult # "rejected"

\* both mutations have run all their hooks to the end although the
\* initialisation failed and a create was rejected, and nothing was stored
C2_Witness ==
  /\ errorLog = {"initialize", "write"}
  /\ ~auditModelInitialized
  /\ audits = <<>>
  /\ \A t \in Tasks : task[t].pc = "done" /\ task[t].hookResult = "none"

(***************************************************************************)
(* The context of a task                                                   *)
(***************************************************************************)
\* the contexts task t can have: the one it was started with and the one of
\* its inner runWithContext, before and after its own update
OwnContexts(t) ==
  {ContextOf(t), Spread(ContextOf(t), UpdateOf(t)),
   InnerOf(t), Spread(InnerOf(t), UpdateOf(t))}

\* C3: every getContext call made inside a task started with runWithContext,
\* at its start or in a continuation after an await, returns that task's own
\* context, however the steps of the tasks and of the top-level code
\* interleave.
C3_ContextIsolation ==
  \A t \in Tasks :
    task[t].scoped /\ task[t].seen.obs =>
      /\ task[t].seen.value.def
      /\ task[t].seen.value.val \in OwnContexts(t)

\* both tasks run under runWithContext at the same time, both have updated
\* their context and read it back after an await, and the top-level code has
\* set a context of its own
C3_Witness ==
  /\ store = Def(OutsideContext)
  /\ \A t \in Tasks :
       /\ task[t].scoped
       /\ task[t].pc = "resumed"
       /\ task[t].seen.value = Def(Spread(ContextOf(t), UpdateOf(t)))

(***************************************************************************)
(* Redaction lists of the global options                                   *)
(***************************************************************************)
\* the list in force when the model's list overrides the global one
ListInForce(own, global) == IF own.def THEN ListSet(own) ELSE ListSet(global)

\* C11 as stated: the exclude and mask lists of the global options are
\* applied to the entries of a model that does not set the list itself, and
\* the model's own list is applied when it sets one.
C11_GlobalListsApplied ==
  HasEntry =>
    LET E == ListInForce(call.config.exclude, call.globalConfig.val.exclude)
        M == ListInForce(call.config.mask, call.globalConfig.val.mask)
    IN TheEntry.newValues = Def(Redacted(call.newValues.val, E, M))

(***************************************************************************)
(* The hooks: which events are written, and what is written                *)
(***************************************************************************)
\* the event kinds a configuration asks to audit: all when no set is given
Audited(event, config) ==
  \/ ~config.auditEvents.def
  \/ config.auditEvents.val = <<>>
  \/ \E i \in 1..Len(config.auditEvents.val) : config.auditEvents.val[i] = event

\* task t runs a hook callback in the step
RunsHook(t) == task[t].pc \in {"running", "hooks"} /\ task'[t] # task[t]

\* the configuration of the callback that task t runs in the step
ConfigRun(t) ==
  IF task[t].pc = "running"
  THEN Head(ConfigsOf(hooks, task'[t].mutation.model))
  ELSE Head(task[t].todo)

\* C12: a hook callback whose event kind is outside the restricted set of
\* its binding does not call the writer and leaves no entry; a callback whose
\* kind is in the set, or any callback of a binding without a set, calls the
\* writer, which issues create with an entry of that kind when the handle is
\* set.  The rows of a model are all of kinds its binding audits.
C12_EventFilter ==
  /\ [](\A i \in 1..Len(audits) :
          \E b \in Bindings :
            b.model = audits[i].table /\ Audited(audits[i].event, b.config))
  /\ [][\A t \in Tasks :
          RunsHook(t) =>
            LET event == task'[t].mutation.event
            IN IF Audited(event, ConfigRun(t))
               THEN /\ task'[t].writerCalls = task[t].writerCalls + 1
                    /\ globalAuditModel # "null" =>
                         /\ task'[t].pc = "create"
                         /\ task'[t].entry.event = event
               ELSE /\ task'[t].writerCalls = task[t].writerCalls
                    /\ task'[t].pc # "create"
                    /\ audits' = audits]_vars

\* a created user went unaudited under the set {updated, deleted} while a
\* restored post, bound without a set, was written
C12_Witness ==
  \E t, u \in Tasks :
    /\ task[t].pc = "done"
    /\ task[t].mutation.event = "created"
    /\ task[t].writerCalls = 0
    /\ task[u].pc = "done"
    /\ task[u].mutation.event = "restored"
    /\ task[u].writerCalls > 0
    /\ Len(audits) > 0
    /\ \A i \in 1..Len(audits) : audits[i].event = "restored"

\* the snapshots an entry of its kind carries
ShapeOfKind(entry) ==
  /\ entry.event \in {"created", "updated", "deleted", "restored"}
  /\ entry.newValues.def = (entry.event # "deleted")
  /\ entry.oldValues.def = (entry.event \in {"updated", "deleted"})

\* C13: every entry a hook hands to the storage, and every row stored, has
\* one of the four event kinds, the kind of the lifecycle event that fired,
\* and the snapshots of that kind: new only for created and restored, old
\* only for deleted, both for updated.
C13_KindAndShape ==
  /\ \A i \in 1..Len(audits) : ShapeOfKind(audits[i])
  /\ \A t \in Tasks :
       task[t].pc = "create" =>
         /\ task[t].entry.event = task[t].mutation.event
         /\ ShapeOfKind(task[t].entry)

\* an updated user and a deleted post were both written
C13_Witness ==
  /\ Len(audits) = 2
  /\ {audits[i].event : i \in 1..Len(audits)} = {"updated", "deleted"}
  /\ \A t \in Tasks : task[t].pc = "done"

\* the actor a stored row names
RowActor(row) == row.userId

\* the row carries the five fields of the context
CarriesContext(row, context) ==
  /\ RowActor(row) = ctxField(context, "actorId")
  /\ row.ip = ctxField(context, "ip")
  /\ row.userAgent = ctxField(context, "userAgent")
  /\ row.url = ctxField(context, "url")
  /\ row.tags = ctxField(context, "tags")

\* C14 as stated: every row written by a hook carries the actor id, ip, user
\* agent, url and tags of the context of the task that mutated, and has all
\* five absent when the task has no context.
C14_RowCarriesContext ==
  \A i \in 1..Len(audits) :
    \E t \in Tasks : CarriesContext(audits[i], task[t].seen.value)

(***************************************************************************)
(* writeAudit without a storage handle                                     *)
(***************************************************************************)
\* C15: a writeAudit call made while no handle is set resolves without
\* calling create, appends nothing and leaves the handle and the state of
\* the binder as they were.
C15_NoHandleNoOp ==
  globalAuditModel = "null" =>
    /\ audits = <<>>
    /\ BinderIdle
    /\ ret.pc \in {"start", "settled"}
    /\ ret.pc = "settled" =>
         ret.result = "resolved" /\ ~ret.attempted /\ ~ret.created

\* a call with both snapshots has returned while no handle was set
C15_Witness ==
  /\ globalAuditModel = "null"
  /\ ret.pc = "settled"
  /\ BothGiven
  /\ call.event = "updated"

(***************************************************************************)
(* The context outside runWithContext, after updateContext, and nested     *)
(***************************************************************************)
\* task t runs outside every runWithContext body
Outside(t) == ~task[t].scoped /\ ~task[t].nested

\* C16 as stated: getContext called outside every runWithContext body
\* returns absent, whatever ran before: bodies of runWithContext that have
\* ended, and setContext or updateContext calls.
C16_AbsentOutside ==
  /\ getContext(store) = Undefined
  /\ \A t \in Tasks :
       Outside(t) /\ task[t].seen.obs => task[t].seen.value = Undefined

\* the context of the innermost runWithContext body task t is in
ScopeContext(t) == IF task[t].nested THEN InnerOf(t) ELSE ContextOf(t)

\* task t, or the helper it awaits, calls updateContext in the step
Updates(t) == ~task[t].updated /\ task'[t].updated /\ task[t].nested = task'[t].nested

\* C17 as stated: after updateContext was called inside a task started with
\* runWithContext, every later getContext in the task returns the given
\* fields with their new values and the other fields unchanged; the call
\* leaves the context of the parent and of the other tasks as they were.
C17_UpdateMerges ==
  /\ [](\A t \in Tasks :
          task[t].scoped /\ task[t].updated /\ task[t].seen.obs =>
            task[t].seen.value = Def(Spread(ScopeContext(t), UpdateOf(t))))
  /\ [][\A t \in Tasks :
          task[t].scoped /\ Updates(t) =>
            /\ store' = store
            /\ \A u \in Tasks \ {t} : task'[u] = task[u]]_vars

\* the fields of an optional context
FieldsOf(context) == IF context.def THEN context.val ELSE EmptyObject

\* C18 as stated: inside a runWithContext body entered from the body of
\* another, getContext returns the inner context's value for every field it
\* sets and the outer context's value for every other field; once the inner
\* body has ended, getContext returns the outer context as it was.
C18_InheritAndShadow ==
  /\ [](\A t \in Tasks :
          task[t].scoped /\ task[t].nested /\ ~task[t].updated /\ task[t].seen.obs =>
            task[t].seen.value =
              Def(Spread(FieldsOf(task[t].saved.store), InnerOf(t))))
  /\ [][\A t \in Tasks :
          task[t].scoped /\ task[t].nested /\ ~task'[t].nested /\ task'[t].pc # "idle" =>
            task'[t].seen = [obs |-> TRUE, value |-> task[t].saved.store]]_vars

(***************************************************************************)
(* The interceptor                                                         *)
(***************************************************************************)
\* s is an initial part of q
IsPrefix(s, q) == Len(s) <= Len(q) /\ s = SubSeq(q, 1, Len(s))

\* C19: the subscriber of the observable returned by intercept has received
\* exactly the values, then the error or the completion, that next.handle()
\* has delivered, in the same order; once it has unsubscribed it receives
\* nothing more.
C19_SameNotifications ==
  \A t \in Tasks :
    /\ IsPrefix(ret[t].delivered, ret[t].emitted)
    /\ ~ret[t].unsubscribed => ret[t].delivered = ret[t].emitted

\* one request has received two different values and the completion, the
\* other a value and the error
C19_Witness ==
  \E t, u \in Tasks :
    /\ ret[t].delivered = <<[kind |-> "next", value |-> "B"],
                            [kind |-> "next", value |-> "A"],
                            [kind |-> "complete", value |-> undefined]>>
    /\ ret[u].delivered = <<[kind |-> "next", value |-> "B"],
                            [kind |-> "error", value |-> "E"]>>

\* the first of two values that is given
FirstGiven(a, b) == IF a # undefined THEN a ELSE b

\* the context of a request: the id of its authenticated user or null, its
\* address, user agent, path and method
RequestContextOf(request) ==
  [actorId   |-> IF request.user.def /\ "id" \in DOMAIN request.user.val
                 THEN request.user.val["id"] ELSE null,
   ip        |-> FirstGiven(request.ip, request.remoteAddress),
   userAgent |-> request.userAgent,
   url       |-> FirstGiven(request.originalUrl, request.url),
   tags      |-> [method |-> request.method]]

\* C20: the handler of every intercepted request runs inside runWithContext
\* under the context built from that request, and getContext returns it in
\* the handler and in its continuations, whatever the other requests do.
C20_HandlerSeesRequestContext ==
  \A t \in Tasks :
    /\ ret[t].sub # "none" => task[t].store = Def(RequestContextOf(call[t]))
    /\ task[t].seen.obs => task[t].seen.value = Def(RequestContextOf(call[t]))

\* the handlers of an authenticated and of an anonymous request have both
\* read their context after an await
C20_Witness ==
  /\ call["t1"].user = Def([id |-> "7"])
  /\ call["t2"].user = Undefined
  /\ \A t \in Tasks : task[t].pc = "resumed" /\ task[t].seen.obs

(***************************************************************************)
(* Provisioning of the audit storage                                       *)
(***************************************************************************)
\* C21: whatever the attachAuditHooks calls and however they interleave with
\* the initialisation, the audit table is provisioned (defined and synced) at
\* most once, as long as no provisioning has failed.
C21_ProvisionedOnce ==
  "initialize" \notin errorLog => syncCalls <= 1

\* C28: writeAudit issues a storage append only when the handle it sees
\* belongs to provisioned storage: while an append is under way the table
\* sync has finished without error, or auto-provisioning is disabled.
C28_AppendOnlyAfterSync ==
  \A t \in Tasks :
    task[t].pc = "create" =>
      auditModelInitialized \/ globalAuditOptions.autoSync = "false"

\* C30: once the subscriber of the observable returned by intercept has
\* unsubscribed, the subscription to next.handle() is no longer active.
C30_UnsubscribeReachesHandler ==
  \A t \in Tasks : ret[t].unsubscribed => ret[t].sub # "open"

(***************************************************************************)
(* The audit log                                                           *)
(***************************************************************************)
\* C22: the audit log is append-only: every step leaves the rows already
\* stored where they are and unchanged, and can only add rows after them.
C22_AppendOnly == [][IsPrefix(audits, audits')]_vars

\* two different rows have been stored one after the other
C22_Witness == Len(audits) = 2 /\ audits[1] # audits[2]

(***************************************************************************)
(* Failed provisioning                                                     *)
(***************************************************************************)
\* an ensureAuditModelInitialized call ends in this step
InitEnds == inits'.import + inits'.sync < inits.import + inits.sync

\* C24: a provisioning failure leaves the initialisation flag as it was, the
\* flag becomes set only in a step in which a provisioning attempt ends
\* without failing, and an attachAuditHooks call made while the flag is unset
\* starts a provisioning attempt, also after an earlier attempt has failed.
C24_FlagOnlyAfterSuccess ==
  [][/\ errorLog' # errorLog => auditModelInitialized' = auditModelInitialized
     /\ (auditModelInitialized' /\ ~auditModelInitialized) =>
           InitEnds /\ errorLog' = errorLog
     /\ (hooks' # hooks /\ ~auditModelInitialized) =>
           inits'.import = inits.import + 1]_vars

\* two provisioning attempts were made, one failed and the flag is set
C24_Witness ==
  /\ "initialize" \in errorLog
  /\ auditModelInitialized
  /\ syncCalls = 2
  /\ inits.import = 0 /\ inits.sync = 0

\* C25: a provisioning failure is surfaced to whoever triggered the
\* initialisation: the promise of the attachAuditHooks call whose
\* provisioning failed is rejected.
C25_FailureSurfaced ==
  "initialize" \in errorLog => inits.settled = "rejected"

(***************************************************************************)
(* Order and number of the appends of a mutation                           *)
(***************************************************************************)
\* the rows of the log that task t caused: t1 runs under a context with an
\* ip, t2 without a context
RowIsOf(t, row) == (row.ip = "10.0.0.1") <=> (t = "t1")

RowsOf(t) == SelectSeq(audits, LAMBDA row : RowIsOf(t, row))

\* the registered configs that let the event through, in registration order
Permitting(configs, event) ==
  SelectSeq(configs, LAMBDA config : Audited(event, config))

\* the row the hook registered with `config` writes for the mutation of t
HookRow(t, config) ==
  LET m == task[t].mutation
  IN insertRow(writeAuditBegin("AuditModel",
                 hookOptions(m.event, m.model, m.instance,
                             getContext(task[t].store), config,
                             globalAuditOptions)).entry)

\* the rows of the hooks that fire for the mutation of t, in firing order
FiringOrder(t) ==
  IF task[t].mutation = NoMutation THEN <<>>
  ELSE LET configs == Permitting(ConfigsOf(hooks, task[t].mutation.model),
                                 task[t].mutation.event)
       IN [i \in 1..Len(configs) |-> HookRow(t, configs[i])]

\* s is q with some elements left out
RECURSIVE IsSubSeq(_, _)
IsSubSeq(s, q) ==
  IF s = <<>> THEN TRUE
  ELSE IF q = <<>> THEN FALSE
  ELSE IF Head(s) = Head(q) THEN IsSubSeq(Tail(s), Tail(q))
  ELSE IsSubSeq(s, Tail(q))

C27_OneAppendPerMutation ==
  \A t \in Tasks :
    (/\ task[t].pc = "done"
     /\ Len(Permitting(ConfigsOf(hooks, task[t].mutation.model),
                       task[t].mutation.event)) > 0)
    => task[t].writerCalls = 1

(***************************************************************************)
(* The actor resolver                                                      *)
(***************************************************************************)
\* the configured name, or the default when none is configured
NameOr(name, default) == IF name = undefined THEN default ELSE name

\* C23: the resolver returns the value of request[userProperty][userIdField]
\* (defaults "user" and "id") whenever the principal is present and has the
\* field, whatever string or number the value is, and null otherwise.
C23_ResolverExact ==
  ret.pc = "done" =>
    LET principal == call.request[NameOr(call.config.userProperty, "user")]
        field     == NameOr(call.config.userIdField, "id")
    IN IF principal.def /\ field \in DOMAIN principal.val
       THEN ret.value = principal.val[field]
       ELSE ret.value = null

(***************************************************************************)
(* The inputs of the pipeline                                              *)
(***************************************************************************)
\* C29: writeAudit leaves the snapshots it is given as they were: when the
\* call has run its diffing, picking, exclusion and masking, the old and the
\* new snapshot passed in have the keys and values they had before.
C29_InputsUnchanged ==
  [][ret'.pc # ret.pc =>
       /\ call'.oldValues = call.oldValues
       /\ call'.newValues = call.newValues]_vars

\* an update without dirty filtering whose snapshots had a field excluded
\* and a field masked in the entry
C29_Witness ==
  /\ ret.pc = "create"
  /\ ~WantedDirty
  /\ BothGiven
  /\ DOMAIN call.oldValues.val = WriteFields
  /\ DOMAIN call.newValues.val = WriteFields
  /\ call.config.exclude = Def(<<"name">>)
  /\ call.config.mask = Def(<<"password">>)
  /\ ret.entry.oldValues = Def([password |-> MASKED])
  /\ ret.entry.newValues = Def([password |-> MASKED])

====
